---- MODULE Spec2Model ----
(***************************************************************************)
(* Model of the File-downloader service: the start-download handler, the   *)
(* background pipeline download_and_process_file (GET, gzip read, ACCESSION *)
(* extraction) and update_file_status, over the `files` table.             *)
(***************************************************************************)
EXTENDS Integers, Sequences, FiniteSets, TLC

VARIABLES files, tasks

vars == <<files, tasks>>

(***************************************************************************)
(* Bounds of the model.                                                    *)
(***************************************************************************)
\* number of POST /file/start-download/ requests in a run
MaxTasks == 2
\* random.randint(1, 10 ** 6) is drawn from 1..MaxTaskId
MaxTaskId == 2
\* longest decompressed text, in symbols, of the single-pipeline specification
MaxTextLen == 7

(***************************************************************************)
(* Optional values: None is the empty tuple, Some(x) a one-element tuple.  *)
(***************************************************************************)
None == <<>>
Some(x) == <<x>>

(***************************************************************************)
(* Status strings written by the code.                                     *)
(***************************************************************************)
Downloading == "Downloading"
Completed == "Completed"
FailedDownload == "Failed to download"
FailedDecompress == "Failed to decompress"
FailedUnexpected == "Failed due to an unexpected error"
Terminal == {Completed, FailedDownload, FailedDecompress, FailedUnexpected}

(***************************************************************************)
(* Text.  A text is a sequence of symbols: the literal "ACCESSION", other  *)
(* non-blank characters, the blank " " and the line break "\n".            *)
(***************************************************************************)
RECURSIVE Pieces(_, _)
\* the maximal runs of s between occurrences of sep (empty runs included)
Pieces(s, sep) ==
    IF \A k \in 1..Len(s) : s[k] # sep
    THEN <<s>>
    ELSE LET k == CHOOSE j \in 1..Len(s) :
                      s[j] = sep /\ \A h \in 1..(j - 1) : s[h] # sep
         IN  <<SubSeq(s, 1, k - 1)>> \o Pieces(SubSeq(s, k + 1, Len(s)), sep)

\* str.splitlines(): a final line break opens no further line
splitlines(text) ==
    LET p == Pieces(text, "\n")
    IN  IF p[Len(p)] = <<>> THEN SubSeq(p, 1, Len(p) - 1) ELSE p

NonEmpty(t) == t # <<>>

\* line.split(' '): every blank separates, empty runs are kept
splitSingleBlank(line) == Pieces(line, " ")

\* str.split(): the runs of non-blank characters
split(line) == SelectSeq(Pieces(line, " "), NonEmpty)

\* line.startswith("ACCESSION")
startswith(line) == Len(line) >= 1 /\ line[1] = "ACCESSION"

\* extract_accession_numbers: line.split()[1] of every matching line, in
\* order; a matching line with a single token raises IndexError
extract_accession_numbers(file_data) ==
    LET matching == SelectSeq(splitlines(file_data), startswith)
    IN  IF \E i \in 1..Len(matching) : Len(split(matching[i])) < 2
        THEN [exc |-> "IndexError", list |-> <<>>]
        ELSE [exc |-> "none",
              list |-> [i \in 1..Len(matching) |-> split(matching[i])[2]]]

(***************************************************************************)
(* Response bodies, as gzip.open(..., 'rt').read() sees them.              *)
(***************************************************************************)
\* "ACCESSION a\nb\nACCESSION b\n"
TextTwo == <<"ACCESSION", " ", "a", "\n", "b", "\n", "ACCESSION", " ", "b", "\n">>
\* "ACCESSION a\nACCESSION\n": the second matching line has no identifier
TextMalformed == <<"ACCESSION", " ", "a", "\n", "ACCESSION", "\n">>
\* "b a\n": no matching line
TextNoMatch == <<"b", " ", "a", "\n">>
Texts == {TextTwo, TextMalformed, TextNoMatch}

\* structural defects of a gzip stream
Defects == {"bad_magic", "bad_crc", "truncated"}
NoBody == [fmt |-> "bad_magic", text |-> <<>>]
Bodies ==
    {[fmt |-> "valid", text |-> t] : t \in Texts}
        \cup {[fmt |-> d, text |-> <<>>] : d \in Defects}

\* what gzip_file.read() raises on a body: bad magic bytes and a CRC mismatch
\* raise gzip.BadGzipFile, a stream that ends early raises EOFError, corrupt
\* deflate data raises zlib.error, bytes that are no UTF-8 text raise
\* UnicodeDecodeError.  Reading from memory raises no other OSError.
GzipRaises(body) ==
    CASE body.fmt = "valid" -> "none"
      [] body.fmt = "bad_magic" -> "BadGzipFile"
      [] body.fmt = "bad_crc" -> "BadGzipFile"
      [] body.fmt = "truncated" -> "EOFError"
      [] body.fmt = "corrupt_deflate" -> "zlib.error"
      [] body.fmt = "bad_utf8" -> "UnicodeDecodeError"

\* gzip.BadGzipFile is a subclass of OSError
IsOSError(exc) == exc \in {"OSError", "BadGzipFile"}

(***************************************************************************)
(* Outcomes of client_session.get / client_session.head.                   *)
(***************************************************************************)
TransportFailures == {"connection_failure", "dns_failure", "timeout"}

\* the exception aiohttp raises for a transport failure: the total timeout
\* raises asyncio.TimeoutError, which is no aiohttp.ClientError
Raised(cause) ==
    CASE cause = "connection_failure" -> "ClientConnectorError"
      [] cause = "dns_failure" -> "ClientConnectorError"
      [] cause = "timeout" -> "TimeoutError"

IsClientError(exc) == exc \in {"ClientConnectorError"}

Statuses == {200, 404, 500}
NoResp == [cause |-> "pending", status |-> 0, body |-> NoBody]
Responses ==
    {[cause |-> "response", status |-> 200, body |-> b] : b \in Bodies}
        \cup {[cause |-> "response", status |-> s, body |-> NoBody] :
                  s \in Statuses \ {200}}
        \cup {[cause |-> c, status |-> 0, body |-> NoBody] : c \in TransportFailures}

Urls == {"u1"}

(***************************************************************************)
(* download_and_process_file, from the response to the one call of         *)
(* update_file_status it makes: the status and accession list passed, and  *)
(* the stages run on the way.                                              *)
(***************************************************************************)
\* a check that lets client errors through: only 5xx counts as a failure
BadStatusServerOnly(status) == status >= 500

\* if response.status != 200
BadStatus(status) == status # 200

\* the except clauses of the outer try
OnException(exc) ==
    IF IsClientError(exc) THEN FailedDownload ELSE FailedUnexpected

\* the except clause around gzip.open
CaughtAsDecompress(exc) == exc = "BadGzipFile"

Plan(resp) ==
    IF resp.cause # "response"
    THEN [status |-> OnException(Raised(resp.cause)), acc |-> None, stages |-> {}]
    ELSE IF BadStatus(resp.status)
    THEN [status |-> FailedDownload, acc |-> None, stages |-> {}]
    ELSE LET exc == GzipRaises(resp.body)
         IN  IF exc # "none"
             THEN IF CaughtAsDecompress(exc)
                  THEN [status |-> FailedDecompress, acc |-> None,
                        stages |-> {"decompress"}]
                  ELSE [status |-> OnException(exc), acc |-> None,
                        stages |-> {"decompress"}]
             ELSE LET e == extract_accession_numbers(resp.body.text)
                  IN  IF e.exc # "none"
                      THEN [status |-> OnException(e.exc), acc |-> None,
                            stages |-> {"decompress", "extract"}]
                      ELSE [status |-> Completed, acc |-> Some(e.list),
                            stages |-> {"decompress", "extract"}]

(***************************************************************************)
(* The copy of the pipeline in file_processing/file_processing.py.  Its    *)
(* extract_accession_numbers and update_file_status repeat the ones above. *)
(***************************************************************************)
\* a variant that also takes a stream that ends early as a decompress failure
CaughtAsDecompressWithEOF(exc) == IsOSError(exc) \/ exc = "EOFError"

\* except (OSError, gzip.BadGzipFile)
CaughtAsDecompressFP(exc) == IsOSError(exc) \/ exc = "BadGzipFile"

PlanFP(resp) ==
    IF resp.cause # "response"
    THEN [status |-> OnException(Raised(resp.cause)), acc |-> None, stages |-> {}]
    ELSE IF resp.status # 200
    THEN [status |-> FailedDownload, acc |-> None, stages |-> {}]
    ELSE LET exc == GzipRaises(resp.body)
         IN  IF exc # "none"
             THEN IF CaughtAsDecompressFP(exc)
                  THEN [status |-> FailedDecompress, acc |-> None,
                        stages |-> {"decompress"}]
                  ELSE [status |-> OnException(exc), acc |-> None,
                        stages |-> {"decompress"}]
             ELSE LET e == extract_accession_numbers(resp.body.text)
                  IN  IF e.exc # "none"
                      THEN [status |-> OnException(e.exc), acc |-> None,
                            stages |-> {"decompress", "extract"}]
                      ELSE [status |-> Completed, acc |-> Some(e.list),
                            stages |-> {"decompress", "extract"}]

(***************************************************************************)
(* State.  files is the table, in row order; tasks holds one entry per     *)
(* start-download request, with the position of its background pipeline:   *)
(* "get" before the GET has answered, "update" when update_file_status is  *)
(* due, "done" after it, "rejected" when no pipeline was dispatched.       *)
(* created is the row the request inserted; writes logs the rows the       *)
(* pipeline updated, before and after.                                     *)
(***************************************************************************)
NoPlan == [status |-> "", acc |-> None, stages |-> {}]

\* File(download_task_id=task_id, url=request.url, status="Downloading"), with
\* the column defaults; now stands for datetime.datetime.utcnow()
NewRow(task_id, url, now) ==
    [download_task_id |-> task_id, url |-> url, status |-> Downloading,
     result_count |-> 0, accession_list |-> <<>>, created_at |-> now]

\* head is the outcome of the request's HEAD probe, code the answer given
NewTask(url, head, code, task_id, row, pc) ==
    [url |-> url, head |-> head, code |-> code, task_id |-> task_id,
     created |-> row, pc |-> pc, resp |-> NoResp, plan |-> NoPlan,
     writes |-> <<>>, store_error |-> FALSE]

Init == files = <<>> /\ tasks = <<>>

(***************************************************************************)
(* start_download                                                          *)
(***************************************************************************)
HeadOutcomes ==
    {[cause |-> "response", status |-> s] : s \in {200, 404}}
        \cup {[cause |-> c, status |-> 0] : c \in TransportFailures}

\* the HEAD probe: 0 when the URL is accepted, else the code answered
ProbeCode(head) ==
    IF head.cause = "response"
    THEN IF head.status # 200 THEN 400 ELSE 0
    ELSE IF IsClientError(Raised(head.cause)) THEN 400 ELSE 500

\* random.randint(1, 10 ** 6): any identifier, used before or not.  The
\* identifiers are interchangeable, so an unused one is the least unused one.
RandomIds ==
    {t \in 1..MaxTaskId :
        \A u \in 1..(t - 1) : \E r \in 1..Len(files) : files[r].download_task_id = u}

start_download(url, head, task_id, commit_ok) ==
    /\ Len(tasks) < MaxTasks
    /\ task_id \in RandomIds
    /\ IF ProbeCode(head) # 0
       THEN /\ tasks' = Append(tasks, NewTask(url, head, ProbeCode(head), 0, 0,
                                               "rejected"))
            /\ UNCHANGED files
       ELSE IF ~commit_ok
       THEN /\ tasks' = Append(tasks, NewTask(url, head, 500, 0, 0, "rejected"))
            /\ UNCHANGED files
       ELSE /\ files' = Append(files, NewRow(task_id, url, Len(tasks) + 1))
            /\ tasks' = Append(tasks, NewTask(url, head, 200, task_id,
                                               Len(files) + 1, "get"))

(***************************************************************************)
(* download_and_process_file                                               *)
(***************************************************************************)
\* client_session.get(url) answers or raises, and the try block runs up to
\* its call of update_file_status
download_and_process_file(i, resp) ==
    /\ tasks[i].pc = "get"
    /\ tasks' = [tasks EXCEPT ![i].resp = resp, ![i].plan = Plan(resp),
                              ![i].pc = "update"]
    /\ UNCHANGED files

(***************************************************************************)
(* update_file_status                                                      *)
(***************************************************************************)
\* select(File).filter_by(download_task_id=task_id)
Matches(task_id) == {r \in 1..Len(files) : files[r].download_task_id = task_id}

\* a variant that sets the list but forgets result_count
UpdatedWithoutCount(rec, status, acc) ==
    IF acc # None
    THEN [rec EXCEPT !.status = status, !.accession_list = acc[1]]
    ELSE [rec EXCEPT !.status = status]

\* a variant that resets the results when none are supplied
UpdatedClearsResults(rec, status, acc) ==
    IF acc # None
    THEN [rec EXCEPT !.status = status, !.accession_list = acc[1],
                     !.result_count = Len(acc[1])]
    ELSE [rec EXCEPT !.status = status, !.accession_list = <<>>,
                     !.result_count = 0]

\* the row after the assignments of update_file_status
Updated(rec, status, acc) ==
    IF acc # None
    THEN [rec EXCEPT !.status = status, !.accession_list = acc[1],
                     !.result_count = Len(acc[1])]
    ELSE [rec EXCEPT !.status = status]

\* a variant in which a failed commit keeps the status assignment
AfterRollbackKeepsStatus(pre, post) == [pre EXCEPT !.status = post.status]

\* except SQLAlchemyError: session.rollback() discards the assignments
AfterRollback(pre, post) == pre

\* One transaction: r is the row first() returns (the query has no ORDER BY,
\* so any matching row may come first; 0 when there is none), and store_ok
\* tells whether the transaction commits or raises SQLAlchemyError and is
\* rolled back.  The assignments reach the table as one UPDATE at commit and
\* rows are never deleted, so the transaction is taken as one step.
update_file_status(i, r, store_ok) ==
    /\ tasks[i].pc = "update"
    /\ IF Matches(tasks[i].task_id) = {}
       THEN /\ r = 0
            /\ tasks' = [tasks EXCEPT ![i].pc = "done"]
            /\ UNCHANGED files
       ELSE /\ r \in Matches(tasks[i].task_id)
            /\ IF store_ok
               THEN LET post == Updated(files[r], tasks[i].plan.status, tasks[i].plan.acc)
                    IN  /\ files' = [files EXCEPT ![r] = post]
                        /\ tasks' = [tasks EXCEPT
                               ![i].pc = "done",
                               ![i].writes = Append(@, [row |-> r, pre |-> files[r],
                                                        post |-> post])]
               ELSE /\ files' = [files EXCEPT ![r] =
                                   AfterRollback(files[r],
                                       Updated(files[r], tasks[i].plan.status,
                                               tasks[i].plan.acc))]
                    /\ tasks' = [tasks EXCEPT ![i].pc = "done", ![i].store_error = TRUE]

(***************************************************************************)
(* check_status                                                            *)
(***************************************************************************)
\* the literal '...' appended to the displayed list, as an identifier
Marker == <<"...">>

\* accession_list[:20]
DisplayLimit == 20

Min(a, b) == IF a <= b THEN a ELSE b

\* display_accessions: the first 20 entries (none for an empty list), then
\* the marker
Display(accession_list) ==
    Append(SubSeq(accession_list, 1, Min(Len(accession_list), DisplayLimit)), Marker)

\* a variant that appends the marker to the stored list itself
AfterDisplayAliased(rec) ==
    [rec EXCEPT !.accession_list = Append(@, Marker)]

\* the stored record after the displayed list is built: the slice (or the
\* fresh empty list) is a new list, so the append does not reach the record
AfterDisplay(rec) == rec

\* a variant that reports records still Downloading as absent
NotFoundUnlessFinished(task_id) ==
    \A r \in Matches(task_id) : files[r].status = Downloading

\* if not file_record
NotFound(task_id) == Matches(task_id) = {}

\* the answer of check_status when first() returns row r (0: none) and the
\* query succeeds (store_ok) or raises SQLAlchemyError
StatusReply(task_id, r, store_ok) ==
    IF ~store_ok
    THEN [code |-> 500, status |-> "", result_count |-> 0, accession_list |-> <<>>]
    ELSE IF NotFound(task_id)
    THEN [code |-> 404, status |-> "", result_count |-> 0, accession_list |-> <<>>]
    ELSE [code |-> 200, status |-> files[r].status,
          result_count |-> files[r].result_count,
          accession_list |-> Display(files[r].accession_list)]

\* the answers a status query for task_id can get in the current state
StatusReplies(task_id) ==
    {StatusReply(task_id, r, store_ok) :
        r \in (IF Matches(task_id) = {} THEN {0} ELSE Matches(task_id)),
        store_ok \in BOOLEAN}

\* the identifiers a status query may name: those in use and an unused one
QueryIds == 1..(MaxTaskId + 1)

\* GET /file/status/{task_id}: the handler answers StatusReply and writes
\* nothing; its transaction ends with the record as AfterDisplay leaves it.
\* A query whose select raises SQLAlchemyError answers 500 before it has
\* loaded any record, so it is the same step as a query that finds none.
check_status(task_id, r) ==
    /\ IF Matches(task_id) = {}
       THEN r = 0 /\ UNCHANGED files
       ELSE /\ r \in Matches(task_id)
            /\ IF ~NotFound(task_id)
               THEN files' = [files EXCEPT ![r] = AfterDisplay(files[r])]
               ELSE UNCHANGED files
    /\ UNCHANGED tasks

Next ==
    \/ \E url \in Urls, head \in HeadOutcomes, task_id \in 1..MaxTaskId,
          commit_ok \in BOOLEAN : start_download(url, head, task_id, commit_ok)
    \/ \E i \in 1..Len(tasks), resp \in Responses : download_and_process_file(i, resp)
    \/ \E i \in 1..Len(tasks), r \in 0..Len(files), store_ok \in BOOLEAN :
          update_file_status(i, r, store_ok)

Spec == Init /\ [][Next]_vars

\* the service with status queries arriving between the steps above
StatusNext ==
    \/ Next
    \/ \E task_id \in QueryIds, r \in 0..Len(files) : check_status(task_id, r)

SpecStatus == Init /\ [][StatusNext]_vars

(***************************************************************************)
(* One accepted task and its pipeline up to the status write, over every   *)
(* response: every text of at most MaxTextLen symbols and every way the    *)
(* fetch and the read of the body can fail.                                *)
(***************************************************************************)
Alphabet == {"ACCESSION", "a", "b", " ", "\n"}
AllTexts == UNION {[1..n -> Alphabet] : n \in 0..MaxTextLen}
AllDefects == Defects \cup {"corrupt_deflate", "bad_utf8"}
AllResponses ==
    {[cause |-> "response", status |-> 200, body |-> [fmt |-> "valid", text |-> t]] :
         t \in AllTexts}
        \cup {[cause |-> "response", status |-> 200,
               body |-> [fmt |-> d, text |-> <<>>]] : d \in AllDefects}
        \cup {[cause |-> "response", status |-> s, body |-> NoBody] :
                  s \in Statuses \ {200}}
        \cup {[cause |-> c, status |-> 0, body |-> NoBody] : c \in TransportFailures}

\* the state after one accepted start_download
InitPipeline ==
    /\ files = <<NewRow(1, "u1", 1)>>
    /\ tasks = <<NewTask("u1", [cause |-> "response", status |-> 200], 200, 1, 1,
                         "get")>>

\* the pipeline up to its call of update_file_status
PipelineNext ==
    /\ tasks[1].pc = "get"
    /\ \E resp \in AllResponses : download_and_process_file(1, resp)

SpecPipeline == InitPipeline /\ [][PipelineNext]_vars

(***************************************************************************)
(* Properties.                                                             *)
(***************************************************************************)
Tasks == 1..Len(tasks)
Rows == 1..Len(files)
Accepted(i) == tasks[i].code = 200
\* the pipeline of task i has called update_file_status
Called(i) == tasks[i].pc \in {"update", "done"}
\* the updates of task i that were applied
Writes(i) == {tasks[i].writes[k] : k \in 1..Len(tasks[i].writes)}
AllWrites == UNION {Writes(i) : i \in Tasks}

\* C1: once a record's status is terminal, no later step changes its status,
\* results or result_count (a record is mutated at most once after creation).
C1_TerminalNeverChanges ==
    [][\A r \in Rows : files[r].status \in Terminal => files'[r] = files[r]]_vars

\* C2: a status update on a task whose status is already terminal is rejected
\* and leaves the record as it was: no applied update found a terminal status.
C2_TerminalUpdateRejected ==
    \A w \in AllWrites : w.pre.status \notin Terminal

\* C3: in every state every record has result_count = Len(results), results
\* non-empty only with status Completed, and every applied update that sets
\* Completed sets results and result_count with it.
C3_ResultsConsistent ==
    /\ \A r \in Rows :
          /\ files[r].result_count = Len(files[r].accession_list)
          /\ files[r].accession_list # <<>> => files[r].status = Completed
    /\ \A w \in AllWrites :
          /\ w.post.result_count = Len(w.post.accession_list)
          /\ w.post.accession_list # <<>> => w.post.status = Completed

\* C4: no accepted task whose pipeline has finished with the store available
\* is left with status Downloading: its record carries a terminal status.
C4_FinishedTaskIsTerminal ==
    \A i \in Tasks :
        (Accepted(i) /\ tasks[i].pc = "done" /\ ~tasks[i].store_error)
            => files[tasks[i].created].status \in Terminal

\* C5: task identifiers are unique: no two records carry the same identifier.
C5_TaskIdsUnique ==
    \A r1 \in Rows, r2 \in Rows :
        r1 # r2 => files[r1].download_task_id # files[r2].download_task_id

\* C6: a pipeline only writes the record created for its own task, and a
\* terminal status stored for a task is the outcome of that task's own fetch.
C6_OwnRecordOnly ==
    /\ \A i \in Tasks : \A w \in Writes(i) : w.row = tasks[i].created
    /\ \A i \in Tasks :
          (Accepted(i) /\ files[tasks[i].created].status \in Terminal)
              => /\ tasks[i].pc = "done"
                 /\ files[tasks[i].created].status = tasks[i].plan.status

\* the body of task i's GET is a gzip stream with a structural defect
DefectiveBody(i) ==
    /\ tasks[i].resp.cause = "response"
    /\ tasks[i].resp.status = 200
    /\ tasks[i].resp.body.fmt \in Defects

\* C7: on any structural violation of the gzip stream the pipeline sets
\* Failed to decompress (never the unexpected-error status, never Completed)
\* and runs no extraction and writes no results.
C7_DefectIsFailedDecompress ==
    \A i \in Tasks :
        (Called(i) /\ DefectiveBody(i))
            => /\ tasks[i].plan.status = FailedDecompress
               /\ "extract" \notin tasks[i].plan.stages
               /\ tasks[i].plan.acc = None
               /\ \A w \in Writes(i) : w.post.status = FailedDecompress

\* C8: on a transport failure of the GET (connection failure, timeout, DNS
\* failure) the pipeline sets Failed to download (never the unexpected-error
\* status) and runs no decompression or extraction and writes no results.
C8_TransportFailureIsFailedDownload ==
    \A i \in Tasks :
        (Called(i) /\ tasks[i].resp.cause \in TransportFailures)
            => /\ tasks[i].plan.status = FailedDownload
               /\ tasks[i].plan.stages = {}
               /\ tasks[i].plan.acc = None
               /\ \A w \in Writes(i) : w.post.status = FailedDownload

\* the GET of task i was answered with a non-success (non-2xx) status
NonSuccessResponse(i) ==
    /\ tasks[i].resp.cause = "response"
    /\ (tasks[i].resp.status < 200 \/ tasks[i].resp.status >= 300)

Malformed(line) == startswith(line) /\ Len(split(line)) < 2
HasMalformedLine(text) ==
    \E k \in 1..Len(splitlines(text)) : Malformed(splitlines(text)[k])
\* the identifiers of the well-formed matching lines, in order
WellFormedIds(text) ==
    LET ok(line) == startswith(line) /\ Len(split(line)) >= 2
        lines == SelectSeq(splitlines(text), ok)
    IN  [k \in 1..Len(lines) |-> split(lines[k])[2]]

\* C10: a line that starts with ACCESSION but has no following token does not
\* abort extraction: extraction still returns the identifiers of the
\* well-formed lines, and the pipeline does not end in the unexpected-error
\* status because of that line.
C10_MalformedLineDoesNotAbort ==
    \A i \in Tasks :
        (/\ Called(i)
         /\ tasks[i].resp.cause = "response"
         /\ tasks[i].resp.status = 200
         /\ tasks[i].resp.body.fmt = "valid"
         /\ HasMalformedLine(tasks[i].resp.body.text))
            => /\ extract_accession_numbers(tasks[i].resp.body.text).exc = "none"
               /\ tasks[i].plan.status = Completed
               /\ tasks[i].plan.acc = Some(WellFormedIds(tasks[i].resp.body.text))

(***************************************************************************)
(* Matching lines and their identifiers, read off the positions of a text. *)
(***************************************************************************)
\* position p opens a line of text
LineStart(text, p) == p = 1 \/ text[p - 1] = "\n"
\* the positions where a line beginning with ACCESSION opens
MatchStarts(text) ==
    {p \in 1..Len(text) : LineStart(text, p) /\ text[p] = "ACCESSION"}
\* the position after the last symbol of the line that holds position p
LineEnd(text, p) ==
    CHOOSE q \in p..(Len(text) + 1) :
        /\ q = Len(text) + 1 \/ text[q] = "\n"
        /\ \A h \in p..(q - 1) : text[h] # "\n"
\* where the second token of the line opening at p begins, if it has one
SecondStarts(text, p) ==
    {t \in (p + 1)..(LineEnd(text, p) - 1) :
        /\ text[t] # " "
        /\ text[t - 1] = " "
        /\ \A h \in (p + 1)..(t - 1) : text[h] = " " => \A g \in h..(t - 1) : text[g] = " "}
\* the second token of the line opening at p
SecondTokenAt(text, p) ==
    LET t == CHOOSE x \in SecondStarts(text, p) : TRUE
        e == CHOOSE q \in t..LineEnd(text, p) :
                 /\ q = LineEnd(text, p) \/ text[q] = " "
                 /\ \A h \in t..(q - 1) : text[h] # " "
    IN  SubSeq(text, t, e - 1)
\* the k-th matching line's opening position
KthStart(text, k) ==
    CHOOSE p \in MatchStarts(text) :
        Cardinality({q \in MatchStarts(text) : q < p}) = k - 1
\* every line beginning with ACCESSION goes on with an identifier
AllWellFormed(text) == \A p \in MatchStarts(text) : SecondStarts(text, p) # {}

\* the GET of task i was answered 200 with a gzip stream that reads as text
ValidText(i) ==
    /\ tasks[i].resp.cause = "response"
    /\ tasks[i].resp.status = 200
    /\ tasks[i].resp.body.fmt = "valid"

\* C11: for a text of which exactly k lines begin with 'ACCESSION <id>',
\* extract returns a sequence of length k whose i-th element is the second
\* whitespace-delimited token of the i-th matching line, in input order;
\* lines not starting with ACCESSION contribute nothing.
C11_ExtractInOrder ==
    \A i \in Tasks :
        (Called(i) /\ ValidText(i) /\ AllWellFormed(tasks[i].resp.body.text))
            => LET text == tasks[i].resp.body.text
                   e == extract_accession_numbers(text)
               IN  /\ e.exc = "none"
                   /\ Len(e.list) = Cardinality(MatchStarts(text))
                   /\ \A k \in 1..Len(e.list) :
                          e.list[k] = SecondTokenAt(text, KthStart(text, k))

\* "ACCESSION a\nACCESSION b" was extracted to the identifiers a, b
C11_Witness ==
    \E i \in Tasks :
        /\ Called(i)
        /\ ValidText(i)
        /\ Cardinality(MatchStarts(tasks[i].resp.body.text)) = 2
        /\ tasks[i].plan.acc = Some(<<(<<"a">>), (<<"b">>)>>)

\* C12: the status query returns the stored accession list unchanged when it
\* has at most 20 entries, and the first 20 entries followed by one marker
\* only when it has more; the marker never appears when nothing was truncated.
C12_MarkerOnlyWhenTruncated ==
    \A id \in QueryIds : \A r \in Matches(id) :
        LET stored == files[r].accession_list
            shown == StatusReply(id, r, TRUE).accession_list
        IN  IF Len(stored) <= DisplayLimit
            THEN shown = stored
            ELSE shown = Append(SubSeq(stored, 1, DisplayLimit), Marker)

\* the GET of task i was answered 200 with valid gzip text whose ACCESSION
\* lines all carry an identifier
WellFormedText(i) ==
    /\ ValidText(i)
    /\ ~HasMalformedLine(tasks[i].resp.body.text)

\* C13: when the fetch returns 200, the body is a valid gzip text stream and
\* every ACCESSION line is well-formed, the pipeline performs exactly one
\* status write, which sets Completed, results equal to the sequence extract
\* returns on the decoded text, and result_count equal to its length.
C13_SuccessWritesCompleted ==
    \A i \in Tasks :
        (Called(i) /\ WellFormedText(i))
            => LET ids == extract_accession_numbers(tasks[i].resp.body.text).list
               IN  /\ tasks[i].plan.status = Completed
                   /\ tasks[i].plan.acc = Some(ids)
                   /\ ids = WellFormedIds(tasks[i].resp.body.text)
                   /\ Len(tasks[i].writes) <= 1
                   /\ (tasks[i].pc = "done" /\ ~tasks[i].store_error)
                          => Len(tasks[i].writes) = 1
                   /\ \A w \in Writes(i) :
                          /\ w.post.status = Completed
                          /\ w.post.accession_list = ids
                          /\ w.post.result_count = Len(ids)
                          /\ files[w.row].result_count = Len(files[w.row].accession_list)

\* a pipeline has written Completed with the two identifiers of its text
C13_Witness ==
    \E i \in Tasks :
        /\ WellFormedText(i)
        /\ tasks[i].pc = "done"
        /\ Len(tasks[i].writes) = 1
        /\ files[tasks[i].writes[1].row].status = Completed
        /\ files[tasks[i].writes[1].row].accession_list = <<(<<"a">>), (<<"b">>)>>
        /\ files[tasks[i].writes[1].row].result_count = 2

ProbeFailed(i) ==
    \/ tasks[i].head.cause \in TransportFailures
    \/ tasks[i].head.cause = "response" /\ tasks[i].head.status # 200

\* C15: when the HEAD probe returns a non-success status or fails with a
\* transport error, start-download answers 400, creates no record and
\* dispatches no pipeline; records exist only for requests whose probe
\* succeeded.
C15_FailedProbeAnswers400 ==
    /\ \A i \in Tasks :
          ProbeFailed(i)
              => /\ tasks[i].code = 400
                 /\ tasks[i].created = 0
                 /\ tasks[i].pc = "rejected"
    /\ \A r \in Rows : \E i \in Tasks : tasks[i].created = r /\ ~ProbeFailed(i)

\* C16: a status query for an identifier that has no record answers 404, and
\* a status query for the identifier of an accepted request never answers
\* 404, at any point after the acceptance.
C16_NotFoundOnlyForUnknown ==
    /\ \A id \in QueryIds :
          Matches(id) = {} => StatusReply(id, 0, TRUE).code = 404
    /\ \A i \in Tasks :
          Accepted(i) => \A reply \in StatusReplies(tasks[i].task_id) : reply.code # 404

\* an accepted task is still Downloading and answered 200, while an
\* identifier without a record is answered 404
C16_Witness ==
    /\ \E i \in Tasks :
          /\ Accepted(i)
          /\ files[tasks[i].created].status = Downloading
          /\ StatusReply(tasks[i].task_id, tasks[i].created, TRUE).code = 200
    /\ \E id \in QueryIds :
          Matches(id) = {} /\ StatusReply(id, 0, TRUE).code = 404

\* C17: the record is committed with status Downloading before the pipeline
\* is dispatched, so the pipeline's first status write always finds status
\* Downloading; if the create fails, start-download answers 500 and
\* dispatches no pipeline.
C17_FirstWriteFindsDownloading ==
    /\ \A i \in Tasks : Accepted(i) => tasks[i].created \in Rows
    /\ \A i \in Tasks : tasks[i].code = 500 => tasks[i].pc = "rejected"
    /\ \A i \in Tasks :
          tasks[i].writes # <<>> => tasks[i].writes[1].pre.status = Downloading

\* C18: a status update changes only status, and results and result_count
\* when results are supplied; it leaves the identifier, url and created_at
\* unchanged, leaves results and result_count unchanged when no results are
\* supplied, and leaves every other record unchanged.
C18_UpdateFrame ==
    /\ [](\A i \in Tasks : \A w \in Writes(i) :
            /\ w.post.download_task_id = w.pre.download_task_id
            /\ w.post.url = w.pre.url
            /\ w.post.created_at = w.pre.created_at
            /\ w.post.status = tasks[i].plan.status
            /\ IF tasks[i].plan.acc = None
               THEN /\ w.post.accession_list = w.pre.accession_list
                    /\ w.post.result_count = w.pre.result_count
               ELSE /\ w.post.accession_list = tasks[i].plan.acc[1]
                    /\ w.post.result_count = Len(tasks[i].plan.acc[1]))
    /\ [][\A r \in Rows :
            files'[r] # files[r] => \A q \in Rows \ {r} : files'[q] = files[q]]_vars

\* an update without results was applied to a record that held results, next
\* to another record
C18_Witness ==
    \E i \in Tasks : \E w \in Writes(i) :
        /\ tasks[i].plan.acc = None
        /\ w.pre.accession_list # <<>>
        /\ w.post.accession_list = w.pre.accession_list
        /\ Len(files) >= 2

\* C19: the status query is read-only: whatever queries are interleaved with
\* the pipelines, every stored record is as start_download created it or as
\* an update_file_status wrote it, never with the displayed marker in it.
C19_StatusQueryReadOnly ==
    \A r \in Rows :
        \/ /\ files[r].status = Downloading
           /\ files[r].accession_list = <<>>
           /\ files[r].result_count = 0
        \/ \E w \in AllWrites : w.row = r /\ w.post = files[r]

\* a Completed record with results is displayed with the marker appended
\* while the stored list is the one the pipeline wrote
C19_Witness ==
    \E i \in Tasks : \E w \in Writes(i) :
        /\ files[w.row].status = Completed
        /\ files[w.row].accession_list = tasks[i].plan.acc[1]
        /\ files[w.row].accession_list # <<>>
        /\ StatusReply(tasks[i].task_id, w.row, TRUE).accession_list
               = Append(files[w.row].accession_list, Marker)

\* C20: the pipeline of file_processing.py and the pipeline of routers/file.py
\* issue the same status write (status and results, after the same stages)
\* for every fetch outcome, decompression outcome and extraction outcome.
C20_CopiesAgree ==
    \A i \in Tasks : Called(i) => PlanFP(tasks[i].resp) = tasks[i].plan

\* both copies met a stream that ends early, and one that has bad magic bytes
C20_Witness ==
    \E i \in Tasks :
        /\ Called(i)
        /\ tasks[i].resp.cause = "response"
        /\ tasks[i].resp.status = 200
        /\ tasks[i].resp.body.fmt = "truncated"
        /\ tasks[i].plan.status = FailedUnexpected
        /\ PlanFP(tasks[i].resp).status = FailedUnexpected

====
